---- MODULE Spec2Model ----
(***************************************************************************)
(* securesystemslib/_gpg/dsa.py: DSA public-key and signature parameter    *)
(* extraction from RFC4880 MPI buffers, and prehashed DSA verification.    *)
(*                                                                         *)
(* Every function of the module is a pure function of its arguments and of *)
(* the import-time flag CRYPTO.  A behaviour of the model is one call:     *)
(* Init draws the flag and the call (function and arguments), the action   *)
(* of the called function runs it to its outcome.                          *)
(*                                                                         *)
(* Bytes are integers 0..255, byte strings are sequences of them.  Text    *)
(* (hexadecimal strings) is a sequence of one-character strings.           *)
(* An outcome is a record: kind "return" or "raise", exc the class of the  *)
(* exception raised (or of the exception object handed back), value the    *)
(* returned value.                                                         *)
(***************************************************************************)
EXTENDS Integers, Sequences, FiniteSets, TLC

VARIABLES CRYPTO, call, pc, result

vars == <<CRYPTO, call, pc, result>>

Min(a, b) == IF a < b THEN a ELSE b

(* Python's data[a:b] on a byte string or text, 0 <= a <= b. *)
Slice(data, a, b) == SubSeq(data, a + 1, Min(b, Len(data)))

(***************************************************************************)
(* binascii and int(text, 16)                                              *)
(***************************************************************************)
HexDigits == <<"0", "1", "2", "3", "4", "5", "6", "7",
               "8", "9", "a", "b", "c", "d", "e", "f">>

(* The value of one hexadecimal digit; -1 for any other character.  Both   *)
(* int(.., 16) and unhexlify accept the upper-case digits too.             *)
HexVal(c) ==
    CASE c = "0" -> 0 [] c = "1" -> 1 [] c = "2" -> 2 [] c = "3" -> 3
      [] c = "4" -> 4 [] c = "5" -> 5 [] c = "6" -> 6 [] c = "7" -> 7
      [] c = "8" -> 8 [] c = "9" -> 9
      [] c \in {"a", "A"} -> 10 [] c \in {"b", "B"} -> 11
      [] c \in {"c", "C"} -> 12 [] c \in {"d", "D"} -> 13
      [] c \in {"e", "E"} -> 14 [] c \in {"f", "F"} -> 15
      [] OTHER -> -1

(* binascii.hexlify(b).decode("ascii"): two lower-case digits per byte. *)
hexlify(b) ==
    [i \in 1..(2 * Len(b)) |->
        IF i % 2 = 1 THEN HexDigits[(b[(i + 1) \div 2] \div 16) + 1]
                     ELSE HexDigits[(b[i \div 2] % 16) + 1]]

AllHex(text) == \A i \in 1..Len(text) : HexVal(text[i]) >= 0

RECURSIVE HexNumber(_)
HexNumber(text) ==
    IF Len(text) = 0 THEN 0
    ELSE 16 * HexNumber(SubSeq(text, 1, Len(text) - 1)) + HexVal(text[Len(text)])

(* int(text, 16) over texts of hexadecimal digits and other characters:    *)
(* the empty text and a text with a non-digit raise ValueError.            *)
int16(text) ==
    IF Len(text) = 0 \/ ~AllHex(text)
    THEN [exc |-> "ValueError", value |-> 0]
    ELSE [exc |-> "None", value |-> HexNumber(text)]

(* binascii.unhexlify(text): odd length or a non-digit raise binascii.Error *)
unhexlify(text) ==
    IF Len(text) % 2 = 1 \/ ~AllHex(text)
    THEN [exc |-> "binascii.Error", value |-> <<>>]
    ELSE [exc |-> "None",
          value |-> [i \in 1..(Len(text) \div 2) |->
                        16 * HexVal(text[2 * i - 1]) + HexVal(text[2 * i])]]

(***************************************************************************)
(* RFC4880 multi-precision integers                                        *)
(***************************************************************************)
RECURSIVE BitLength(_)
BitLength(v) == IF v = 0 THEN 0 ELSE 1 + BitLength(v \div 2)

(* The big-endian magnitude bytes of v, none for 0. *)
RECURSIVE IntToBytes(_)
IntToBytes(v) == IF v = 0 THEN <<>> ELSE IntToBytes(v \div 256) \o <<v % 256>>

RECURSIVE BytesToInt(_)
BytesToInt(b) ==
    IF Len(b) = 0 THEN 0
    ELSE 256 * BytesToInt(SubSeq(b, 1, Len(b) - 1)) + b[Len(b)]

(* mpi(v): the 2-byte big-endian bit length of v, then its magnitude bytes *)
Mpi(v) == <<BitLength(v) \div 256, BitLength(v) % 256>> \o IntToBytes(v)

(* gpg_util.get_mpi_length(data): the byte length of the field whose       *)
(* length prefix is data.  The prefix holds the bit length as one 2-byte   *)
(* big-endian unsigned; the byte length is ceil(bit_length / 8).  A prefix *)
(* of fewer than 2 bytes breaks the decoder's input constraint: it is a    *)
(* failure of the decoder, which is not the PacketParsingError that the    *)
(* extractors raise for a short data slice.                                *)
get_mpi_length(data) ==
    IF Len(data) # 2
    THEN [exc |-> "struct.error", len |-> 0]
    ELSE [exc |-> "None", len |-> (256 * data[1] + data[2] + 7) \div 8]

(* One field of the cursor walk, as written out for each of p, q, g, y, r  *)
(* and s: read the length at ptr, step over the prefix, slice the data,    *)
(* raise on a short slice, step over the data.  reads lists the slices     *)
(* taken from the buffer, in order, as [from, to) offsets.                 *)
ReadMpi(data, ptr) ==
    LET length == get_mpi_length(Slice(data, ptr, ptr + 2))
        value == Slice(data, ptr + 2, ptr + 2 + length.len)
        prefix == [from |-> ptr, to |-> ptr + 2]
    IN  IF length.exc # "None"
        THEN [exc |-> length.exc, value |-> <<>>, ptr |-> ptr,
              reads |-> <<prefix>>]
        ELSE IF Len(value) # length.len
        THEN [exc |-> "PacketParsingError", value |-> <<>>, ptr |-> ptr + 2,
              reads |-> <<prefix, [from |-> ptr + 2, to |-> ptr + 2 + length.len]>>]
        ELSE [exc |-> "None", value |-> value, ptr |-> ptr + 2 + length.len,
              reads |-> <<prefix, [from |-> ptr + 2, to |-> ptr + 2 + length.len]>>]

NoParams == [y |-> <<>>, p |-> <<>>, g |-> <<>>, q |-> <<>>]

(* The mapping get_pubkey_params returns.  The variant files the second    *)
(* field under "g" and the third under "q".                                *)
pubkey_dict_g_q_swapped(value_y, prime_p, generator, group_order_q) ==
    [y |-> hexlify(value_y), p |-> hexlify(prime_p),
     g |-> hexlify(group_order_q), q |-> hexlify(generator)]

pubkey_dict(value_y, prime_p, generator, group_order_q) ==
    [y |-> hexlify(value_y), p |-> hexlify(prime_p),
     g |-> hexlify(generator), q |-> hexlify(group_order_q)]

(* get_pubkey_params(data): p, q, g, y in that order from offset 0. *)
get_pubkey_params(data) ==
    LET prime_p == ReadMpi(data, 0)
        group_order_q == ReadMpi(data, prime_p.ptr)
        generator == ReadMpi(data, group_order_q.ptr)
        value_y == ReadMpi(data, generator.ptr)
        Raise(exc, reads) ==
            [kind |-> "raise", exc |-> exc, value |-> NoParams, trace |-> reads]
    IN  IF prime_p.exc # "None" THEN Raise(prime_p.exc, prime_p.reads)
        ELSE IF group_order_q.exc # "None"
        THEN Raise(group_order_q.exc, prime_p.reads \o group_order_q.reads)
        ELSE IF generator.exc # "None"
        THEN Raise(generator.exc,
                   prime_p.reads \o group_order_q.reads \o generator.reads)
        ELSE IF value_y.exc # "None"
        THEN Raise(value_y.exc,
                   prime_p.reads \o group_order_q.reads \o generator.reads
                       \o value_y.reads)
        ELSE [kind |-> "return", exc |-> "None",
              value |-> pubkey_dict(value_y.value, prime_p.value,
                                    generator.value, group_order_q.value),
              trace |-> prime_p.reads \o group_order_q.reads \o generator.reads
                            \o value_y.reads]

(***************************************************************************)
(* cryptography.hazmat.primitives.asymmetric.utils: the DER form of (r, s) *)
(* SEQUENCE { INTEGER r, INTEGER s }, definite short-form lengths.         *)
(***************************************************************************)
DerInteger(v) ==
    LET magnitude == IF v = 0 THEN <<0>> ELSE IntToBytes(v)
        body == IF magnitude[1] >= 128 THEN <<0>> \o magnitude ELSE magnitude
    IN  <<2, Len(body)>> \o body

encode_dss_signature(r, s) ==
    LET body == DerInteger(r) \o DerInteger(s)
    IN  <<48, Len(body)>> \o body

(* One INTEGER at offset at (0-based) of der: its value and the offset     *)
(* after it; ok is FALSE when no well-formed non-negative INTEGER is there *)
DerReadInteger(der, at) ==
    LET size == IF Len(der) >= at + 2 THEN der[at + 2] ELSE 0
        body == Slice(der, at + 2, at + 2 + size)
    IN  IF Len(der) < at + 2 \/ der[at + 1] # 2 \/ size = 0 \/ Len(body) # size
        THEN [ok |-> FALSE, value |-> 0, next |-> at]
        ELSE IF body[1] >= 128
        THEN [ok |-> FALSE, value |-> 0, next |-> at]
        ELSE [ok |-> TRUE, value |-> BytesToInt(body), next |-> at + 2 + size]

decode_dss_signature(der) ==
    LET r == DerReadInteger(der, 2)
        s == DerReadInteger(der, r.next)
    IN  IF Len(der) < 2 \/ der[1] # 48 \/ der[2] # Len(der) - 2
        THEN [ok |-> FALSE, r |-> 0, s |-> 0]
        ELSE IF ~r.ok \/ ~s.ok \/ s.next # Len(der)
        THEN [ok |-> FALSE, r |-> 0, s |-> 0]
        ELSE [ok |-> TRUE, r |-> r.value, s |-> s.value]

(* get_signature_params(data): r then s from offset 0, as the DER pair.    *)
(* Without the cryptography library the exception object is handed back    *)
(* by return.  s is converted to an integer before r.  The variant takes   *)
(* all that is left of the buffer as the data of s, the last field.        *)
get_signature_params_s_to_end(data) ==
    LET r == ReadMpi(data, 0)
        s == [ReadMpi(data, r.ptr) EXCEPT
                  !.value = Slice(data, r.ptr + 2, Len(data))]
        s_int == int16(hexlify(s.value))
        r_int == int16(hexlify(r.value))
        Raise(exc, reads) ==
            [kind |-> "raise", exc |-> exc, value |-> <<>>, trace |-> reads]
    IN  IF ~CRYPTO
        THEN [kind |-> "return", exc |-> "UnsupportedLibraryError",
              value |-> <<>>, trace |-> <<>>]
        ELSE IF r.exc # "None" THEN Raise(r.exc, r.reads)
        ELSE IF s.exc # "None" THEN Raise(s.exc, r.reads \o s.reads)
        ELSE IF s_int.exc # "None" THEN Raise(s_int.exc, r.reads \o s.reads)
        ELSE IF r_int.exc # "None" THEN Raise(r_int.exc, r.reads \o s.reads)
        ELSE [kind |-> "return", exc |-> "None",
              value |-> encode_dss_signature(r_int.value, s_int.value),
              trace |-> r.reads \o s.reads]

get_signature_params(data) ==
    LET r == ReadMpi(data, 0)
        s == ReadMpi(data, r.ptr)
        s_int == int16(hexlify(s.value))
        r_int == int16(hexlify(r.value))
        Raise(exc, reads) ==
            [kind |-> "raise", exc |-> exc, value |-> <<>>, trace |-> reads]
    IN  IF ~CRYPTO
        THEN [kind |-> "return", exc |-> "UnsupportedLibraryError",
              value |-> <<>>, trace |-> <<>>]
        ELSE IF r.exc # "None" THEN Raise(r.exc, r.reads)
        ELSE IF s.exc # "None" THEN Raise(s.exc, r.reads \o s.reads)
        ELSE IF s_int.exc # "None" THEN Raise(s_int.exc, r.reads \o s.reads)
        ELSE IF r_int.exc # "None" THEN Raise(r_int.exc, r.reads \o s.reads)
        ELSE [kind |-> "return", exc |-> "None",
              value |-> encode_dss_signature(r_int.value, s_int.value),
              trace |-> r.reads \o s.reads]

(***************************************************************************)
(* The external capabilities of verify_signature.                          *)
(***************************************************************************)
SupportedHashes == {"SHA1", "SHA256", "SHA512"}

(* gpg_util.get_hashing_class(hash_algorithm_id): the hash implementation  *)
(* of a recognised identifier, ValueError for any other.                   *)
get_hashing_class(hash_algorithm_id) ==
    IF hash_algorithm_id \in SupportedHashes
    THEN [exc |-> "None", hasher |-> hash_algorithm_id]
    ELSE [exc |-> "ValueError", hasher |-> "None"]

digest_size(algorithm) ==
    CASE algorithm = "SHA1" -> 20
      [] algorithm = "SHA256" -> 32
      [] algorithm = "SHA512" -> 64
      [] OTHER -> 0

(* A digest of a collision-free hash function: it stands for (and only     *)
(* for) the algorithm and the bytes that were hashed.                      *)
Hash(algorithm, bytes) ==
    [algorithm |-> algorithm, size |-> digest_size(algorithm), input |-> bytes]

(* gpg_util.hash_object(headers, algorithm, content): the digest of the    *)
(* metadata trailer followed by the content.                               *)
hash_object(headers, algorithm, content) == Hash(algorithm, headers \o content)

(* Prehashed(algorithm): the digest is declared to be of that algorithm. *)
Prehashed(algorithm) == [algorithm |-> algorithm, size |-> digest_size(algorithm)]

(* An injective numbering of the byte strings and of the digests. *)
BytesCode(bytes) == BytesToInt(<<1>> \o bytes)

DigestCode(digest) ==
    3 * BytesCode(digest.input)
        + (CASE digest.algorithm = "SHA1" -> 0
             [] digest.algorithm = "SHA256" -> 1
             [] OTHER -> 2)

(* The signer of an ideal signature scheme: under the key with public      *)
(* value y, every digest has its own signature pair (r, s).                *)
Sign(pubkey, digest) == [r |-> 1 + pubkey.y, s |-> 1 + DigestCode(digest)]

(* DSAPublicKey.verify(signature, data, Prehashed(algorithm)): ValueError  *)
(* when the data is not of the declared digest's size, InvalidSignature    *)
(* when the signature is no DER pair or is not the pair of this key and    *)
(* digest; the signature parses before the data is looked at.              *)
pubkey_verify(pubkey, signature, digest, prehashed) ==
    LET pair == decode_dss_signature(signature)
    IN  IF digest.size # prehashed.size THEN "ValueError"
        ELSE IF ~pair.ok THEN "InvalidSignature"
        ELSE IF [r |-> pair.r, s |-> pair.s] # Sign(pubkey, digest)
        THEN "InvalidSignature"
        ELSE "None"

(* DSAPublicNumbers(y, DSAParameterNumbers(p, q, g)).public_key(backend):  *)
(* the library refuses parameters that are no DSA group.                   *)
NoKey == [p |-> 0, q |-> 0, g |-> 0, y |-> 0]

public_key(p, q, g, y) ==
    IF 1 < g /\ g < p
    THEN [exc |-> "None", key |-> [p |-> p, q |-> q, g |-> g, y |-> y]]
    ELSE [exc |-> "ValueError", key |-> NoKey]

(***************************************************************************)
(* create_pubkey(pubkey_info).  steps lists what the call did, in order.   *)
(***************************************************************************)
(* The variant checks for the library only where it first uses it. *)
create_pubkey_check_before_use(pubkey_info) ==
    LET public == pubkey_info.keyval.public
        y == int16(public.y)
        g == int16(public.g)
        p == int16(public.p)
        q == int16(public.q)
        pubkey == public_key(p.value, q.value, g.value, y.value)
        Raise(exc, steps) ==
            [kind |-> "raise", exc |-> exc, value |-> NoKey, trace |-> steps]
    IN  IF y.exc # "None" THEN Raise(y.exc, <<"y">>)
        ELSE IF g.exc # "None" THEN Raise(g.exc, <<"y", "g">>)
        ELSE IF p.exc # "None"
        THEN Raise(p.exc, <<"y", "g", "p">>)
        ELSE IF q.exc # "None"
        THEN Raise(q.exc, <<"y", "g", "p", "q">>)
        ELSE IF ~CRYPTO
        THEN Raise("UnsupportedLibraryError",
                   <<"y", "g", "p", "q", "capability">>)
        ELSE IF pubkey.exc # "None"
        THEN Raise(pubkey.exc, <<"y", "g", "p", "q", "capability", "public_key">>)
        ELSE [kind |-> "return", exc |-> "None", value |-> pubkey.key,
              trace |-> <<"y", "g", "p", "q", "capability", "public_key">>]

create_pubkey(pubkey_info) ==
    LET public == pubkey_info.keyval.public
        y == int16(public.y)
        g == int16(public.g)
        p == int16(public.p)
        q == int16(public.q)
        pubkey == public_key(p.value, q.value, g.value, y.value)
        Raise(exc, steps) ==
            [kind |-> "raise", exc |-> exc, value |-> NoKey, trace |-> steps]
    IN  IF ~CRYPTO THEN Raise("UnsupportedLibraryError", <<"capability">>)
        ELSE IF y.exc # "None" THEN Raise(y.exc, <<"capability", "y">>)
        ELSE IF g.exc # "None" THEN Raise(g.exc, <<"capability", "y", "g">>)
        ELSE IF p.exc # "None"
        THEN Raise(p.exc, <<"capability", "y", "g", "p">>)
        ELSE IF q.exc # "None"
        THEN Raise(q.exc, <<"capability", "y", "g", "p", "q">>)
        ELSE IF pubkey.exc # "None"
        THEN Raise(pubkey.exc, <<"capability", "y", "g", "p", "q", "public_key">>)
        ELSE [kind |-> "return", exc |-> "None", value |-> pubkey.key,
              trace |-> <<"capability", "y", "g", "p", "q", "public_key">>]

(***************************************************************************)
(* verify_signature(signature_object, pubkey_info, content,                *)
(* hash_algorithm_id).  handed is what reached the verification primitive: *)
(* the signature bytes, the digest and the declared digest algorithm.      *)
(***************************************************************************)
(* The identifier get_hashing_class is called with.  The variant takes    *)
(* the key's own hash specification.                                       *)
hasher_id_from_key(signature_object, pubkey_info, hash_algorithm_id) ==
    pubkey_info.hashes

hasher_id(signature_object, pubkey_info, hash_algorithm_id) == hash_algorithm_id

(* The digest of the signed bytes.  The variant hands the content over as  *)
(* the headers and the headers as the content.                             *)
signed_digest_content_first(other_headers, hasher, content) ==
    hash_object(content, hasher, other_headers)

signed_digest(other_headers, hasher, content) ==
    hash_object(other_headers, hasher, content)

(* The try block around the signature decoding and pubkey_object.verify:   *)
(* what an exception raised in it becomes, "False" when it is caught and   *)
(* turned into the return value.  The first variant catches every          *)
(* exception, the second returns True after catching.                      *)
except_any(exc) == IF exc = "None" THEN "True" ELSE "False"

except_returns_true(exc) ==
    IF exc \in {"None", "InvalidSignature"} THEN "True" ELSE exc

except_InvalidSignature(exc) ==
    IF exc = "None" THEN "True"
    ELSE IF exc = "InvalidSignature" THEN "False"
    ELSE exc

NotHanded ==
    [signature |-> <<>>, digest |-> Hash("None", <<>>), prehashed |-> Prehashed("None")]

verify_signature(signature_object, pubkey_info, content, hash_algorithm_id) ==
    LET hasher ==
            get_hashing_class(hasher_id(signature_object, pubkey_info, hash_algorithm_id))
        pubkey_object == create_pubkey(pubkey_info)
        other_headers == unhexlify(signature_object.other_headers)
        digest == signed_digest(other_headers.value, hasher.hasher, content)
        signature == unhexlify(signature_object.signature)
        prehashed == Prehashed(hasher.hasher)
        tried ==
            except_InvalidSignature(
                IF signature.exc # "None" THEN signature.exc
                ELSE pubkey_verify(pubkey_object.value, signature.value,
                                   digest, prehashed))
        upto_key == <<"capability", "get_hashing_class", "create_pubkey">>
                        \o pubkey_object.trace
        upto_try == upto_key \o <<"other_headers", "hash_object", "signature">>
                        \o (IF signature.exc # "None" THEN <<>> ELSE <<"verify">>)
        handed ==
            IF signature.exc # "None" THEN NotHanded
            ELSE [signature |-> signature.value, digest |-> digest,
                  prehashed |-> prehashed]
        Raise(exc, steps, given) ==
            [kind |-> "raise", exc |-> exc, value |-> FALSE, trace |-> steps,
             handed |-> given]
    IN  IF ~CRYPTO
        THEN Raise("UnsupportedLibraryError", <<"capability">>, NotHanded)
        ELSE IF hasher.exc # "None"
        THEN Raise(hasher.exc, <<"capability", "get_hashing_class">>, NotHanded)
        ELSE IF pubkey_object.kind = "raise"
        THEN Raise(pubkey_object.exc, upto_key, NotHanded)
        ELSE IF other_headers.exc # "None"
        THEN Raise(other_headers.exc, upto_key \o <<"other_headers">>, NotHanded)
        ELSE IF tried \in {"True", "False"}
        THEN [kind |-> "return", exc |-> "None", value |-> (tried = "True"),
              trace |-> upto_try, handed |-> handed]
        ELSE Raise(tried, upto_try, handed)

(***************************************************************************)
(* The calls.                                                              *)
(***************************************************************************)
(* The longest run of bytes that follows a buffer's last field. *)
MaxExt == 2

ExtBytes == {0, 9}

Exts == UNION {[1..k -> ExtBytes] : k \in 0..MaxExt}

Prefixes(b) == {SubSeq(b, 1, n) : n \in 0..Len(b)}

PubValues == {0, 1, 255, 256}

SigValues == {0, 1, 127, 128, 256}

PubkeyBody(p, q, g, y) == Mpi(p) \o Mpi(q) \o Mpi(g) \o Mpi(y)

SignatureBody(r, s) == Mpi(r) \o Mpi(s)

(* Every buffer that is a prefix of a public-key (signature) body followed *)
(* by some more bytes: the bodies, their truncations, their extensions.    *)
PubkeyBuffers ==
    UNION {Prefixes(PubkeyBody(v[1], v[2], v[3], v[4]) \o x) :
               v \in PubValues \X PubValues \X PubValues \X PubValues, x \in Exts}

SignatureBuffers ==
    UNION {Prefixes(SignatureBody(v[1], v[2]) \o x) :
               v \in SigValues \X SigValues, x \in Exts}

(* Keys: a well-formed one, the same in upper case, one with another       *)
(* public value, and ones with a field that is no number or no generator.  *)
PublicA == [p |-> <<"1", "7">>, q |-> <<"0", "b">>, g |-> <<"0", "4">>,
            y |-> <<"0", "8">>]

Publics ==
    {PublicA,
     [PublicA EXCEPT !.q = <<"0", "B">>],
     [PublicA EXCEPT !.y = <<"0", "9">>],
     [PublicA EXCEPT !.p = <<"z", "z">>],
     [PublicA EXCEPT !.q = <<>>],
     [PublicA EXCEPT !.g = <<"0", "1">>],
     [PublicA EXCEPT !.y = <<"0", "x">>]}

HashHints == {"SHA1", "SHA512"}

PubkeyInfos ==
    {[keyval |-> [public |-> k], hashes |-> h] : k \in Publics, h \in HashHints}

Trailers == {<<>>, <<1>>, <<1, 2>>}

Contents == {<<>>, <<1>>, <<2>>}

HashIds == SupportedHashes \cup {"MD5"}

(* What the holder of key A's private value signed. *)
SignerKey == [p |-> 23, q |-> 11, g |-> 4, y |-> 8]

SignatureTexts ==
    {hexlify(encode_dss_signature(
         Sign(SignerKey, Hash(a, t \o c)).r, Sign(SignerKey, Hash(a, t \o c)).s)) :
        a \in {"SHA1", "SHA256"}, t \in Trailers, c \in Contents}
    \cup {<<"0", "0">>, <<"3">>, <<"3", "0", "0", "g">>}

HeaderTexts == {hexlify(t) : t \in Trailers} \cup {<<"0">>, <<"0", "A">>}

SignatureObjects ==
    {[other_headers |-> t, signature |-> s, info |-> [hash_algorithm |-> h]] :
        t \in HeaderTexts, s \in SignatureTexts, h \in HashHints}

Calls ==
    {[op |-> "get_pubkey_params", data |-> d] : d \in PubkeyBuffers}
    \cup {[op |-> "get_signature_params", data |-> d] : d \in SignatureBuffers}
    \cup {[op |-> "create_pubkey", pubkey_info |-> k] : k \in PubkeyInfos}
    \cup {[op |-> "verify_signature", signature_object |-> so, pubkey_info |-> k,
           content |-> c, hash_algorithm_id |-> h] :
              so \in SignatureObjects, k \in PubkeyInfos, c \in Contents,
              h \in HashIds}

NoResult == [kind |-> "none"]

Init ==
    /\ CRYPTO \in BOOLEAN
    /\ call \in Calls
    /\ pc = "ready"
    /\ result = NoResult

GetPubkeyParams ==
    /\ pc = "ready"
    /\ call.op = "get_pubkey_params"
    /\ result' = get_pubkey_params(call.data)
    /\ pc' = "done"
    /\ UNCHANGED <<CRYPTO, call>>

GetSignatureParams ==
    /\ pc = "ready"
    /\ call.op = "get_signature_params"
    /\ result' = get_signature_params(call.data)
    /\ pc' = "done"
    /\ UNCHANGED <<CRYPTO, call>>

CreatePubkey ==
    /\ pc = "ready"
    /\ call.op = "create_pubkey"
    /\ result' = create_pubkey(call.pubkey_info)
    /\ pc' = "done"
    /\ UNCHANGED <<CRYPTO, call>>

VerifySignature ==
    /\ pc = "ready"
    /\ call.op = "verify_signature"
    /\ result' = verify_signature(call.signature_object, call.pubkey_info,
                                  call.content, call.hash_algorithm_id)
    /\ pc' = "done"
    /\ UNCHANGED <<CRYPTO, call>>

Next == GetPubkeyParams \/ GetSignatureParams \/ CreatePubkey \/ VerifySignature

Spec == Init /\ [][Next]_vars

(***************************************************************************)
(* Properties                                                              *)
(***************************************************************************)
Done(op) == pc = "done" /\ call.op = op

Raised(exc) == result.kind = "raise" /\ result.exc = exc

PubkeyBodies ==
    {PubkeyBody(v[1], v[2], v[3], v[4]) :
        v \in PubValues \X PubValues \X PubValues \X PubValues}

SignatureBodies == {SignatureBody(v[1], v[2]) : v \in SigValues \X SigValues}

Truncations(bodies) == UNION {Prefixes(b) \ {b} : b \in bodies}

TruncatedPubkeyBodies == Truncations(PubkeyBodies)

TruncatedSignatureBodies == Truncations(SignatureBodies)

(* C1: with the capability available, an extractor given a valid body cut  *)
(* at any byte boundary before its end, a cut inside a length prefix       *)
(* included, raises PacketParsingError.                                    *)
C1_TruncationRaisesParsingError ==
    /\ (Done("get_pubkey_params") /\ call.data \in TruncatedPubkeyBodies)
           => Raised("PacketParsingError")
    /\ (Done("get_signature_params") /\ CRYPTO
            /\ call.data \in TruncatedSignatureBodies)
           => Raised("PacketParsingError")

(* C2: without the capability get_signature_params raises                  *)
(* UnsupportedLibraryError, for every buffer and before it reads any of it *)
C2_SignatureParamsRaisesUnsupported ==
    (Done("get_signature_params") /\ ~CRYPTO)
        => (Raised("UnsupportedLibraryError") /\ result.trace = <<>>)

BadHex(text) == Len(text) % 2 = 1 \/ ~AllHex(text)

ReachedVerify ==
    /\ Len(result.trace) > 0
    /\ result.trace[Len(result.trace)] = "verify"

(* What the primitive answers to what verify_signature handed it. *)
PrimitiveVerdict ==
    pubkey_verify(create_pubkey(call.pubkey_info).value, result.handed.signature,
                  result.handed.digest, result.handed.prehashed)

(* C3: verify_signature returns True only when the primitive accepts,      *)
(* False only when the primitive raises InvalidSignature, and raises the   *)
(* error of every other failure: no capability, an unrecognised hash       *)
(* identifier, malformed key parameters, malformed hex in the signature    *)
(* object.                                                                 *)
C3_ThreeOutcomes ==
    Done("verify_signature") =>
        LET so == call.signature_object
            known == call.hash_algorithm_id \in SupportedHashes
            key == create_pubkey(call.pubkey_info)
        IN  /\ result.kind \in {"return", "raise"}
            /\ (result.kind = "return" /\ result.value)
                   => (ReachedVerify /\ PrimitiveVerdict = "None")
            /\ (result.kind = "return" /\ ~result.value)
                   => (ReachedVerify /\ PrimitiveVerdict = "InvalidSignature")
            /\ ~CRYPTO => Raised("UnsupportedLibraryError")
            /\ (CRYPTO /\ ~known) => Raised("ValueError")
            /\ (CRYPTO /\ known /\ key.kind = "raise") => Raised("ValueError")
            /\ (CRYPTO /\ known /\ key.kind = "return" /\ BadHex(so.other_headers))
                   => Raised("binascii.Error")
            /\ (CRYPTO /\ known /\ key.kind = "return" /\ BadHex(so.signature))
                   => Raised("binascii.Error")

C3_Witness ==
    /\ Done("verify_signature")
    /\ result.kind = "return"
    /\ result.value

(* C4: without the capability verify_signature and create_pubkey raise     *)
(* UnsupportedLibraryError whatever their input, and the capability check  *)
(* is all they did: no identifier resolved, no key parameter, no field of  *)
(* the signature object read.                                              *)
C4_CapabilityCheckedFirst ==
    ((Done("verify_signature") \/ Done("create_pubkey")) /\ ~CRYPTO)
        => (Raised("UnsupportedLibraryError") /\ result.trace = <<"capability">>)

C4_Witness ==
    /\ Done("verify_signature")
    /\ ~CRYPTO
    /\ call.hash_algorithm_id \notin SupportedHashes
    /\ ~AllHex(call.pubkey_info.keyval.public.y)
    /\ BadHex(call.signature_object.signature)

(* The lower-case hexadecimal text of the magnitude bytes of v. *)
IsHexOf(text, v) ==
    /\ Len(text) = 2 * ((BitLength(v) + 7) \div 8)
    /\ \A i \in 1..Len(text) : \E d \in 1..16 : text[i] = HexDigits[d]
    /\ HexNumber(text) = v

(* C5: from mpi(p) || mpi(q) || mpi(g) || mpi(y) get_pubkey_params returns *)
(* the mapping with p under "p", q under "q", g under "g" and y under "y", *)
(* each as the lower-case hexadecimal text of its data bytes.              *)
C5_ExtractionOrder ==
    (Done("get_pubkey_params") /\ call.data \in PubkeyBodies) =>
        \A v \in PubValues \X PubValues \X PubValues \X PubValues :
            call.data = PubkeyBody(v[1], v[2], v[3], v[4]) =>
                /\ result.kind = "return"
                /\ IsHexOf(result.value.p, v[1])
                /\ IsHexOf(result.value.q, v[2])
                /\ IsHexOf(result.value.g, v[3])
                /\ IsHexOf(result.value.y, v[4])

C5_Witness ==
    /\ Done("get_pubkey_params")
    /\ call.data = PubkeyBody(256, 255, 1, 0)
    /\ result.kind = "return"

(* C6: the digest handed to the primitive is the hash of the decoded       *)
(* other_headers bytes followed by the content bytes.                      *)
C6_DigestOfTrailerThenContent ==
    (Done("verify_signature") /\ ReachedVerify) =>
        /\ ~BadHex(call.signature_object.other_headers)
        /\ result.handed.digest.input =
               unhexlify(call.signature_object.other_headers).value \o call.content

C6_Witness ==
    /\ Done("verify_signature")
    /\ ReachedVerify
    /\ call.signature_object.other_headers = <<"0", "1", "0", "2">>
    /\ call.content = <<1>>
    /\ result.handed.digest.input = <<1, 2, 1>>

(* The call with the roles of trailer and content exchanged. *)
SwappedVerification ==
    verify_signature(
        [call.signature_object EXCEPT !.other_headers = hexlify(call.content)],
        call.pubkey_info,
        unhexlify(call.signature_object.other_headers).value,
        call.hash_algorithm_id)

Verified == Done("verify_signature") /\ result.kind = "return" /\ result.value

TrailerThenContent ==
    unhexlify(call.signature_object.other_headers).value \o call.content

ContentThenTrailer ==
    call.content \o unhexlify(call.signature_object.other_headers).value

(* C7 as stated: whenever verify_signature returns True, the verification  *)
(* over content || trailer does not return True.                           *)
C7_SwappedNeverVerifies ==
    Verified => ~(SwappedVerification.kind = "return" /\ SwappedVerification.value)

(* C7 as amended: whenever verify_signature returns True and               *)
(* content || trailer is another byte string than trailer || content, the  *)
(* verification over content || trailer does not return True.              *)
C7_SwappedVerifiesOnlySameBytes ==
    (Verified /\ TrailerThenContent # ContentThenTrailer)
        => ~(SwappedVerification.kind = "return" /\ SwappedVerification.value)

C7_Witness ==
    /\ Verified
    /\ TrailerThenContent # ContentThenTrailer
    /\ SwappedVerification.kind = "return"

(* C8: the digest is computed with, and declared as of, the algorithm of   *)
(* the caller's hash_algorithm_id, and the outcome is the same whatever    *)
(* hash algorithm the key or the signature object name themselves.         *)
C8_CallerAlgorithmWins ==
    Done("verify_signature") =>
        /\ ReachedVerify =>
               /\ result.handed.digest.algorithm = call.hash_algorithm_id
               /\ result.handed.prehashed.algorithm = call.hash_algorithm_id
        /\ \A hk \in HashHints \cup SupportedHashes,
              hs \in HashHints \cup SupportedHashes :
               verify_signature(
                   [call.signature_object EXCEPT !.info.hash_algorithm = hs],
                   [call.pubkey_info EXCEPT !.hashes = hk],
                   call.content, call.hash_algorithm_id) = result

C8_Witness ==
    /\ Verified
    /\ call.pubkey_info.hashes # call.hash_algorithm_id
    /\ call.signature_object.info.hash_algorithm # call.hash_algorithm_id

(* C9: with the capability available, get_signature_params on              *)
(* mpi(r) || mpi(s) returns the encoding that decodes to the pair (r, s).  *)
C9_SignatureRoundTrip ==
    (Done("get_signature_params") /\ CRYPTO) =>
        \A v \in SigValues \X SigValues :
            call.data = SignatureBody(v[1], v[2]) =>
                /\ result.kind = "return"
                /\ decode_dss_signature(result.value) =
                       [ok |-> TRUE, r |-> v[1], s |-> v[2]]

(* The slices of a cursor walk start at 0, and each starts where the one   *)
(* before it ended.                                                        *)
Forward(reads) ==
    /\ Len(reads) > 0
    /\ reads[1].from = 0
    /\ \A i \in 1..Len(reads) : reads[i].from <= reads[i].to
    /\ \A i \in 1..(Len(reads) - 1) : reads[i + 1].from = reads[i].to

Extracted ==
    /\ Done("get_pubkey_params") \/ Done("get_signature_params")
    /\ result.kind = "return"
    /\ result.exc = "None"

(* C10: a successful extraction read contiguous slices front to back, and  *)
(* the same buffer followed by any further bytes gives the same result.    *)
C10_ForwardAndTrailingIgnored ==
    Extracted =>
        /\ Forward(result.trace)
        /\ \A x \in Exts :
               IF call.op = "get_pubkey_params"
               THEN get_pubkey_params(call.data \o x) = result
               ELSE get_signature_params(call.data \o x) = result

C10_Witness ==
    /\ Extracted
    /\ call.op = "get_signature_params"
    /\ Len(call.data) > result.trace[Len(result.trace)].to

====
